---- MODULE Spec2Model ----
(***************************************************************************)
(* Model of the InventoryAPI durable function app (src/function_app.py)    *)
(* and of the name pipeline it calls (src/shared/names.py).                *)
(*                                                                         *)
(* Python values are records [t, s, n]: t is the type tag, s the           *)
(* characters of a str (a sequence of one-character strings), n the value  *)
(* of a number.  Floats are represented by integers; NaN is its own tag.   *)
(* A dict is a function from its possible keys to values, Absent marking   *)
(* a key the dict does not hold.                                           *)
(***************************************************************************)
EXTENDS Integers, Sequences, FiniteSets, TLC

VARIABLES psi,        \* frame of one process_single_item / formatting run
          today,      \* calendar day read by datetime.now() in http_start
          requests,   \* http_start invocations in flight
          orch,       \* orchestration instances, by instance id
          docs,       \* the Inventory container: user id -> document
          written,    \* ghost: per user, the records the document held at
                      \* the start plus those counted as stored by the
                      \* store executions that returned
          source,     \* the Invoices container: user id -> invoice documents
          llm         \* the replies the language model gives to the three
                      \* requests of a process_single_item activity

vars == <<psi, today, requests, orch, docs, written, source, llm>>

----------------------------------------------------------------------------
(* Python values *)

None_ == [t |-> "none", s |-> <<>>, n |-> 0]
Absent == [t |-> "absent", s |-> <<>>, n |-> 0]
NaN == [t |-> "nan", s |-> <<>>, n |-> 0]
Str(chars) == [t |-> "str", s |-> chars, n |-> 0]
Num(k) == [t |-> "num", s |-> <<>>, n |-> k]

\* bool(v)
Truthy(v) ==
    CASE v.t = "str" -> v.s # <<>>
      [] v.t = "num" -> v.n # 0
      [] v.t = "nan" -> TRUE
      [] OTHER -> FALSE

\* d.get(k, default)
Get(d, k, default) == IF d[k].t = "absent" THEN default ELSE d[k]

----------------------------------------------------------------------------
(* str methods, on sequences of characters *)

IsSpace(c) == c \in {" ", "\n", "\t"}

UpperToLower ==
    [c \in {"A", "B", "C", "D", "E", "F", "G", "H", "I", "J", "K", "L", "M",
            "N", "O", "P", "Q", "R", "S", "T", "U", "V", "W", "X", "Y", "Z"} |->
        CASE c = "A" -> "a" [] c = "B" -> "b" [] c = "C" -> "c" [] c = "D" -> "d"
          [] c = "E" -> "e" [] c = "F" -> "f" [] c = "G" -> "g" [] c = "H" -> "h"
          [] c = "I" -> "i" [] c = "J" -> "j" [] c = "K" -> "k" [] c = "L" -> "l"
          [] c = "M" -> "m" [] c = "N" -> "n" [] c = "O" -> "o" [] c = "P" -> "p"
          [] c = "Q" -> "q" [] c = "R" -> "r" [] c = "S" -> "s" [] c = "T" -> "t"
          [] c = "U" -> "u" [] c = "V" -> "v" [] c = "W" -> "w" [] c = "X" -> "x"
          [] c = "Y" -> "y" [] c = "Z" -> "z"]

LowerChar(c) == IF c \in DOMAIN UpperToLower THEN UpperToLower[c] ELSE c

\* s.lower()
Lower(s) == [i \in 1..Len(s) |-> LowerChar(s[i])]

\* s.startswith(p)
StartsWith(s, p) == Len(s) >= Len(p) /\ SubSeq(s, 1, Len(p)) = p

\* s.strip()
RECURSIVE LStrip(_)
LStrip(s) == IF s # <<>> /\ IsSpace(Head(s)) THEN LStrip(Tail(s)) ELSE s

RECURSIVE RStrip(_)
RStrip(s) ==
    IF s # <<>> /\ IsSpace(s[Len(s)]) THEN RStrip(SubSeq(s, 1, Len(s) - 1)) ELSE s

Strip(s) == RStrip(LStrip(s))

\* index of the first occurrence of character c in s, 0 when there is none
RECURSIVE FindFrom(_, _, _)
FindFrom(s, c, i) ==
    IF i > Len(s) THEN 0 ELSE IF s[i] = c THEN i ELSE FindFrom(s, c, i + 1)

Find(s, c) == FindFrom(s, c, 1)

\* s.split(c): the pieces between the occurrences of the character c
RECURSIVE Split(_, _)
Split(s, c) ==
    LET i == Find(s, c)
    IN  IF i = 0 THEN <<s>>
        ELSE <<SubSeq(s, 1, i - 1)>> \o Split(SubSeq(s, i + 1, Len(s)), c)

\* what follows the last occurrence of c
RECURSIVE AfterLast(_, _)
AfterLast(s, c) ==
    IF Find(s, c) = 0 THEN s ELSE AfterLast(SubSeq(s, Find(s, c) + 1, Len(s)), c)

\* s.split(c, 1)[1]: what follows the first occurrence of c (c occurs in s)
AfterFirst(s, c) == SubSeq(s, Find(s, c) + 1, Len(s))

----------------------------------------------------------------------------
(* float(v) *)

DigitVal ==
    [c \in {"0", "1", "2", "3", "4", "5", "6", "7", "8", "9"} |->
        CASE c = "0" -> 0 [] c = "1" -> 1 [] c = "2" -> 2 [] c = "3" -> 3
          [] c = "4" -> 4 [] c = "5" -> 5 [] c = "6" -> 6 [] c = "7" -> 7
          [] c = "8" -> 8 [] c = "9" -> 9]

AllDigits(s) == s # <<>> /\ \A i \in 1..Len(s) : s[i] \in DOMAIN DigitVal

RECURSIVE DigitsValue(_, _)
DigitsValue(s, acc) ==
    IF s = <<>> THEN acc ELSE DigitsValue(Tail(s), 10 * acc + DigitVal[Head(s)])

Raised == [ok |-> FALSE, v |-> None_]
Returned(v) == [ok |-> TRUE, v |-> v]

\* float(str): surrounding whitespace is ignored, then an optional sign and
\* either "nan" in any casing or a run of digits; anything else raises
\* ValueError.  (Fractions, exponents and "inf" are outside the inputs drawn.)
ParseUnsigned(body, neg) ==
    IF Lower(body) = <<"n", "a", "n">> THEN Returned(NaN)
    ELSE IF AllDigits(body)
         THEN Returned(Num(IF neg THEN 0 - DigitsValue(body, 0)
                                  ELSE DigitsValue(body, 0)))
         ELSE Raised

ParseStripped(s) ==
    IF s # <<>> /\ Head(s) \in {"+", "-"}
    THEN ParseUnsigned(Tail(s), Head(s) = "-")
    ELSE ParseUnsigned(s, FALSE)

ParseFloat(chars) == ParseStripped(Strip(chars))

\* str(e) of the ValueError float(str) raises; the str is shown as its repr
ValueErrorText(chars) ==
    <<"c", "o", "u", "l", "d", " ", "n", "o", "t", " ", "c", "o", "n", "v", "e", "r", "t", " ", "s", "t", "r", "i", "n", "g", " ", "t", "o", " ", "f", "l", "o", "a", "t", ":", " ", "'">> \o chars \o <<"'">>

\* str(e) of the TypeError float(None) raises
TypeErrorText ==
    <<"f", "l", "o", "a", "t", "(", ")", " ", "a", "r", "g", "u", "m", "e", "n", "t", " ", "m", "u", "s", "t", " ", "b", "e", " ", "a", " ", "s", "t", "r", "i", "n", "g", " ", "o", "r", " ", "a", " ", "r", "e", "a", "l", " ", "n", "u", "m", "b", "e", "r", ",", " ", "n", "o", "t", " ", "'", "N", "o", "n", "e", "T", "y", "p", "e", "'">>

\* a raised exception, with its str(e)
RaisedWith(chars) == [ok |-> FALSE, v |-> Str(chars)]

OrValueError(parsed, chars) ==
    IF parsed.ok THEN parsed ELSE RaisedWith(ValueErrorText(chars))

\* float(v): a number stays, a str is parsed, None raises TypeError
Float(v) ==
    CASE v.t = "num" -> Returned(v)
      [] v.t = "nan" -> Returned(v)
      [] v.t = "str" -> OrValueError(ParseFloat(v.s), v.s)
      [] OTHER -> RaisedWith(TypeErrorText)

\* isinstance(v, (int, float))
IsNumber(v) == v.t \in {"num", "nan"}

\* v < 0 for a number v: every comparison with NaN is False
LessThanZero(v) == v.t = "num" /\ v.n < 0

----------------------------------------------------------------------------
(* src/shared/names.py *)

\* category_specific_rules: the keys as written in the source, each with its
\* list of directives
RuleKeys ==
    [k \in {"paper", "bakery", "produce", "meat", "seafood", "dairy", "grocery",
            "beverages"} |->
        CASE k = "paper" -> <<"p", "a", "p", "e", "r", " ", "g", "o", "o",
                              "d", "s", " ", "a", "n", "d", " ", "D", "i",
                              "s", "p", "o", "s", "a", "b", "l", "e", "s">>
          [] k = "bakery" -> <<"B", "A", "K", "E", "R", "Y">>
          [] k = "produce" -> <<"p", "r", "o", "d", "u", "c", "e">>
          [] k = "meat" -> <<"m", "e", "a", "t">>
          [] k = "seafood" -> <<"s", "e", "a", "f", "o", "o", "d">>
          [] k = "dairy" -> <<"d", "a", "i", "r", "y">>
          [] k = "grocery" -> <<"D", "r", "y", " ", "G", "r", "o", "c", "e", "r", "y">>
          [] k = "beverages" -> <<"b", "e", "v", "e", "r", "a", "g", "e", "s">>]

RuleLists ==
    [k \in DOMAIN RuleKeys |->
        CASE k = "paper" ->
               <<"Include size and material", "Remove brand names unless essential">>
          [] k = "bakery" ->
               <<"Specify bread type first", "Include shape and size if relevant">>
          [] k = "produce" ->
               <<"Include 'Fresh' for non-processed items", "Specify variety and form">>
          [] k = "meat" ->
               <<"Include cut and preparation method", "Specify key characteristics">>
          [] k = "seafood" ->
               <<"Include type and preparation method",
                 "Specify fresh or frozen if relevant">>
          [] k = "dairy" -> <<"Specify product type first", "Include key descriptors">>
          [] k = "grocery" ->
               <<"Specify item type first", "Include key characteristics">>
          [] k = "beverages" ->
               <<"Specify type of beverage first",
                 "Include key descriptors like brand name">>]

\* category_specific_rules.get(category, []): dict lookup is by equality of
\* the key, so a str in another casing, or a value that is no str, finds
\* nothing
category_specific_rules(category) ==
    IF category.t = "str" /\ \E k \in DOMAIN RuleKeys : RuleKeys[k] = category.s
    THEN RuleLists[CHOOSE k \in DOMAIN RuleKeys : RuleKeys[k] = category.s]
    ELSE <<>>

\* a training example as load_jsonl_data returns it
Example(category, prompt, completion) ==
    [category |-> category, prompt |-> prompt, completion |-> completion]

\* the filter `ex.get('category', '').lower() == category.lower()` raises
\* AttributeError on the first example when the category, or an example's
\* category, is no str; over an empty training list it evaluates nothing
FilterRaises(training_data, category) ==
    /\ training_data # <<>>
    /\ \/ category.t # "str"
       \/ \E i \in 1..Len(training_data) :
              Get(training_data[i], "category", Str(<<>>)).t # "str"

MatchesCategory(ex, category) ==
    Lower(Get(ex, "category", Str(<<>>)).s) = Lower(category.s)

CategoryExamples(training_data, category) ==
    SelectSeq(training_data, LAMBDA ex : MatchesCategory(ex, category))

FirstN(s, k) == SubSeq(s, 1, IF Len(s) < k THEN Len(s) ELSE k)

\* a reply of the language model: the request fails, or yields a text
Failure == [ok |-> FALSE, content |-> <<>>]
Reply(chars) == [ok |-> TRUE, content |-> chars]

\* the prompt standardize_item_name sends
StandardizePrompt(item_description, training_data, category) ==
    [kind |-> "standardize",
     name |-> item_description,
     original |-> item_description,
     examples |-> CategoryExamples(training_data, category),
     rules |-> category_specific_rules(category)]

\* standardize_item_name: the example filter runs outside the try, so its
\* fault escapes; a failed request returns the description as it came
standardize_item_name(item_description, training_data, category, reply) ==
    IF FilterRaises(training_data, category) THEN Raised
    ELSE IF reply.ok THEN Returned(Str(Strip(reply.content)))
    ELSE Returned(item_description)

\* `[:5]`: the evaluator keeps the first five matching examples
MaxExamples == 5

\* the prompt evaluate_and_correct_item_name sends; the f-string renders
\* whatever value standardized_name is, None included
EvaluatePrompt(standardized_name, original_name, category, training_data) ==
    [kind |-> "evaluate",
     name |-> standardized_name,
     original |-> original_name,
     examples |-> FirstN(CategoryExamples(training_data, category), MaxExamples),
     rules |-> category_specific_rules(category)]

\* f"Error: {str(e)}", with the detail of the failure reduced to one character
ErrorText == <<"E", "r", "r", "o", "r", ":", " ", "x">>

\* evaluate_and_correct_item_name: everything is inside the try
evaluate_and_correct_item_name(standardized_name, original_name, category, training_data, reply) ==
    IF FilterRaises(training_data, category) THEN Str(ErrorText)
    ELSE IF reply.ok THEN Str(Strip(reply.content))
    ELSE Str(ErrorText)

FinalNameLabel == <<"f", "i", "n", "a", "l", " ", "c", "o", "r", "r", "e",
                    "c", "t", "e", "d", " ", "n", "a", "m", "e", ":">>

\* the first line, in order, whose lowercase form starts with the label
RECURSIVE FirstLabelled(_)
FirstLabelled(lines) ==
    IF lines = <<>> THEN 0
    ELSE IF StartsWith(Lower(Head(lines)), FinalNameLabel) THEN 1
    ELSE LET r == FirstLabelled(Tail(lines)) IN IF r = 0 THEN 0 ELSE r + 1

\* an extraction that falls back to the whole text when no line matches
ExtractOrWholeText(evaluation_result) ==
    IF evaluation_result.t # "str" THEN None_
    ELSE IF FirstLabelled(Split(evaluation_result.s, "\n")) = 0
         THEN evaluation_result
         ELSE Str(Strip(AfterFirst(
                  Split(evaluation_result.s, "\n")[
                      FirstLabelled(Split(evaluation_result.s, "\n"))], ":")))

\* extract_final_name: None when no line matches, and when the argument is
\* no str (the AttributeError is caught)
extract_final_name(evaluation_result) ==
    IF evaluation_result.t # "str" THEN None_
    ELSE LET lines == Split(evaluation_result.s, "\n")
             i == FirstLabelled(lines)
         IN  IF i = 0 THEN None_ ELSE Str(Strip(AfterFirst(lines[i], ":")))

----------------------------------------------------------------------------
(* src/function_app.py: process_single_item *)

RawKeys ==
    {"Item Name", "Item Number", "Quantity In a Case", "Measurement Of Each Item",
     "Measured In", "Total Units Ordered", "Case Price", "Catch Weight",
     "Priced By", "Splitable", "Split Price", "Cost of a Unit",
     "Product Category", "Supplier Name", "Invoice Number"}

ProcKeys ==
    {"supplier", "invoice_id", "invoice_number", "userId", "itemName",
     "itemNumber", "quantityInCase", "measurementOfEachItem", "measuredIn",
     "totalUnitsOrdered", "casePrice", "catchWeight", "pricedBy", "splitable",
     "splitPrice", "costOfUnit", "productCategory", "final_corrected_name"}

NA == Str(<<"N", "/", "A">>)
NO == Str(<<"N", "O">>)
Empty == Str(<<>>)

\* the element the orchestrator builds for one raw item
ItemData(item, invoice_id, user_id) ==
    [item |-> item,
     invoice_id |-> invoice_id,
     supplier |-> Get(item, "Supplier Name", None_),
     invoice_number |-> Get(item, "Invoice Number", None_),
     userId |-> user_id]

\* the mapping of the raw item into processed_item; a float() that raises
\* ends the activity in its except clause
ProcessedItem(itemdata, item, q, m, u, p, c) ==
    IF ~(q.ok /\ m.ok /\ u.ok /\ p.ok /\ c.ok) THEN Raised
    ELSE Returned(
        [k \in ProcKeys |->
            CASE k = "supplier" -> itemdata.supplier
              [] k = "invoice_id" -> itemdata.invoice_id
              [] k = "invoice_number" -> itemdata.invoice_number
              [] k = "userId" -> itemdata.userId
              [] k = "itemName" -> Get(item, "Item Name", Empty)
              [] k = "itemNumber" -> Get(item, "Item Number", Empty)
              [] k = "quantityInCase" -> q.v
              [] k = "measurementOfEachItem" -> m.v
              [] k = "measuredIn" -> Get(item, "Measured In", Empty)
              [] k = "totalUnitsOrdered" -> u.v
              [] k = "casePrice" -> p.v
              [] k = "catchWeight" -> Get(item, "Catch Weight", NA)
              [] k = "pricedBy" -> Get(item, "Priced By", Empty)
              [] k = "splitable" -> Get(item, "Splitable", NO)
              [] k = "splitPrice" -> Get(item, "Split Price", NA)
              [] k = "costOfUnit" -> c.v
              [] k = "productCategory" -> Get(item, "Product Category", Empty)
              [] k = "final_corrected_name" -> Absent])

MapRawItem(itemdata) ==
    ProcessedItem(itemdata, itemdata.item,
                  Float(Get(itemdata.item, "Quantity In a Case", Num(0))),
                  Float(Get(itemdata.item, "Measurement Of Each Item", Num(0))),
                  Float(Get(itemdata.item, "Total Units Ordered", Num(0))),
                  Float(Get(itemdata.item, "Case Price", Num(0))),
                  Float(Get(itemdata.item, "Cost of a Unit", Num(0))))

\* the name handed to the second evaluate_and_correct_item_name call as
\* standardized_name
SecondCandidate(standardized_name, final_name) == final_name

\* `if final_name2: processed_item['final_corrected_name'] = final_name2`
AttachFinalName(processed_item, final_name2) ==
    IF Truthy(final_name2)
    THEN [processed_item EXCEPT !["final_corrected_name"] = final_name2]
    ELSE processed_item

\* process_single_item from the standardized name on: the two evaluation
\* rounds; r1 and r2 are the language model's replies
EvaluateRounds(processed_item, standardized_name, training_data, r1, r2) ==
    LET original == processed_item["itemName"]
        category == processed_item["productCategory"]
        evaluation == evaluate_and_correct_item_name(
                          standardized_name, original, category, training_data, r1)
        final_name == extract_final_name(evaluation)
        evaluation2 == evaluate_and_correct_item_name(
                           SecondCandidate(standardized_name, final_name),
                           original, category, training_data, r2)
        final_name2 == extract_final_name(evaluation2)
    IN  AttachFinalName(processed_item, final_name2)

\* process_single_item: the processed item, or None when anything raised
AfterStandardize(processed_item, std, training_data, r1, r2) ==
    IF ~std.ok THEN None_
    ELSE EvaluateRounds(processed_item, std.v, training_data, r1, r2)

AfterMapping(mapped, training_data, r0, r1, r2) ==
    IF ~mapped.ok THEN None_
    ELSE AfterStandardize(
             mapped.v,
             standardize_item_name(mapped.v["itemName"], training_data,
                                   mapped.v["productCategory"], r0),
             training_data, r1, r2)

process_single_item(itemdata, training_data, r0, r1, r2) ==
    AfterMapping(MapRawItem(itemdata), training_data, r0, r1, r2)

----------------------------------------------------------------------------
(* src/function_app.py: extract_brand, validate_storage_item and the body  *)
(* of the loop of store_items_activity                                     *)

Generic == Str(<<"G", "e", "n", "e", "r", "i", "c">>)

\* s.split(): the maximal runs of characters that are not whitespace
RECURSIVE SplitWords(_)
SplitWords(s) ==
    LET t == LStrip(s)
        RECURSIVE WordEnd(_)
        WordEnd(i) == IF i > Len(t) \/ IsSpace(t[i]) THEN i - 1 ELSE WordEnd(i + 1)
    IN  IF t = <<>> THEN <<>>
        ELSE <<SubSeq(t, 1, WordEnd(1))>> \o SplitWords(SubSeq(t, WordEnd(1) + 1, Len(t)))

IsUpper(c) == c \in DOMAIN UpperToLower

\* a brand extraction that looks for the apostrophe before the '/'
BrandApostropheFirst(item_name) ==
    IF item_name.t # "str" THEN Generic
    ELSE IF SplitWords(item_name.s) = <<>> THEN Generic
    ELSE IF Find(item_name.s, "'") # 0 THEN Str(Strip(Split(item_name.s, "'")[1]))
    ELSE IF Find(item_name.s, "/") # 0 THEN Str(Strip(Split(item_name.s, "/")[1]))
    ELSE IF IsUpper(SplitWords(item_name.s)[1][1]) THEN Str(SplitWords(item_name.s)[1])
    ELSE Generic

\* extract_brand: a name that is no str raises inside the try
extract_brand(item_name) ==
    IF item_name.t # "str" THEN Generic
    ELSE LET s == item_name.s
             words == SplitWords(s)
         IN  IF words = <<>> THEN Generic
             ELSE IF Find(s, "/") # 0 THEN Str(Strip(Split(s, "/")[1]))
             ELSE IF Find(s, "'") # 0 THEN Str(Strip(Split(s, "'")[1]))
             ELSE IF IsUpper(words[1][1]) THEN Str(words[1])
             ELSE Generic

RequiredFields == <<"Inventory Item Name", "Item Number", "Category", "Measured In">>

NumericFields ==
    <<"Quantity In a Case", "Measurement Of Each Item", "Total Units",
      "Case Price", "Cost of a Unit">>

StorageKeys ==
    {"Supplier Name", "Inventory Item Name", "Brand", "Inventory Unit of Measure",
     "Item Name", "Item Number", "Quantity In a Case", "Measurement Of Each Item",
     "Measured In", "Total Units", "Case Price", "Catch Weight", "Priced By",
     "Splitable", "Split Price", "Cost of a Unit", "Category", "batchNumber"}

\* `not isinstance(v, (int, float)) or v < 0`
InvalidNumeric(v) == ~IsNumber(v) \/ LessThanZero(v)

validate_storage_item(item) ==
    /\ \A i \in 1..Len(RequiredFields) : Truthy(Get(item, RequiredFields[i], None_))
    /\ \A i \in 1..Len(NumericFields) :
           ~InvalidNumeric(Get(item, NumericFields[i], None_))

\* mutant: the formatter ignores the corrected name
InventoryItemNameNoFinal(item) == Get(item, "itemName", Empty)

\* 'Inventory Item Name': item.get('final_corrected_name', item.get('itemName', ''))
InventoryItemName(item) ==
    Get(item, "final_corrected_name", Get(item, "itemName", Empty))

\* the first of the conversions, in the order of the literal, that raised
RECURSIVE FirstRaised(_)
FirstRaised(conversions) ==
    IF ~Head(conversions).ok THEN Head(conversions)
    ELSE FirstRaised(Tail(conversions))

\* the storage_item literal; the record's own timestamp is left out (nothing
\* reads it)
StorageItem(item, batch_num, q, m, u, p, c) ==
    IF ~(q.ok /\ m.ok /\ u.ok /\ p.ok /\ c.ok)
    THEN FirstRaised(<<q, m, u, p, c>>)
    ELSE Returned(
        [k \in StorageKeys |->
            CASE k = "Supplier Name" -> Get(item, "supplier", Empty)
              [] k = "Inventory Item Name" -> InventoryItemName(item)
              [] k = "Brand" -> extract_brand(Get(item, "itemName", Empty))
              [] k = "Inventory Unit of Measure" -> Get(item, "measuredIn", Empty)
              [] k = "Item Name" -> Get(item, "itemName", Empty)
              [] k = "Item Number" -> Get(item, "itemNumber", Empty)
              [] k = "Quantity In a Case" -> q.v
              [] k = "Measurement Of Each Item" -> m.v
              [] k = "Measured In" -> Get(item, "measuredIn", Empty)
              [] k = "Total Units" -> u.v
              [] k = "Case Price" -> p.v
              [] k = "Catch Weight" -> Get(item, "catchWeight", NA)
              [] k = "Priced By" -> Get(item, "pricedBy", Empty)
              [] k = "Splitable" -> Get(item, "splitable", NO)
              [] k = "Split Price" -> Get(item, "splitPrice", NA)
              [] k = "Cost of a Unit" -> c.v
              [] k = "Category" -> Get(item, "productCategory", Empty)
              [] k = "batchNumber" -> Num(batch_num)])

FormatStorageItem(item, batch_num) ==
    StorageItem(item, batch_num,
                Float(Get(item, "quantityInCase", Num(0))),
                Float(Get(item, "measurementOfEachItem", Num(0))),
                Float(Get(item, "totalUnitsOrdered", Num(0))),
                Float(Get(item, "casePrice", Num(0))),
                Float(Get(item, "costOfUnit", Num(0))))

\* `if not item`: an empty mapping
IsEmptyItem(item) == \A k \in ProcKeys : item[k].t = "absent"

\* one turn of the loop over the batch: the item is skipped, faults, is
\* appended or is rejected
Validated(f) ==
    IF ~f.ok THEN [kind |-> "error", rec |-> None_, detail |-> f.v]
    ELSE IF validate_storage_item(f.v)
         THEN [kind |-> "stored", rec |-> f.v, detail |-> None_]
         ELSE [kind |-> "invalid", rec |-> f.v, detail |-> None_]

StoreLoopBody(item, batch_num) ==
    IF IsEmptyItem(item) THEN [kind |-> "skipped", rec |-> None_, detail |-> None_]
    ELSE Validated(FormatStorageItem(item, batch_num))

----------------------------------------------------------------------------
(* Inputs: raw invoice items, training data and replies of the language    *)
(* model                                                                   *)

\* how many fields of a raw item differ from the complete item BaseItem
MaxDeviations == 1

Ham == <<"H", "a", "m">>

BaseItem ==
    [k \in RawKeys |->
        CASE k = "Item Name" -> Str(Ham)
          [] k = "Item Number" -> Str(<<"A", "7">>)
          [] k = "Measured In" -> Str(<<"l", "b">>)
          [] k = "Product Category" -> Str(<<"m", "e", "a", "t">>)
          [] k = "Catch Weight" -> NA
          [] k = "Priced By" -> Str(<<"c", "a", "s", "e">>)
          [] k = "Splitable" -> NO
          [] k = "Split Price" -> NA
          [] k = "Supplier Name" -> Str(<<"A", "c", "m", "e">>)
          [] k = "Invoice Number" -> Str(<<"I", "1">>)
          [] OTHER -> Num(2)]

\* the other values a field of a raw item takes
Alternatives(k) ==
    CASE k \in {"Quantity In a Case", "Measurement Of Each Item",
                "Total Units Ordered", "Case Price", "Cost of a Unit"} ->
             {Absent, None_, Num(0), Num(0 - 1), Str(<<"3">>), Str(<<"-", "1">>),
              Str(<<"n", "a", "n">>), Str(<<"n", "/", "a">>), Str(<<>>)}
      [] k = "Item Name" ->
             {Absent, None_, Empty, Str(<<"T", "y", "s", "o", "n", "/", "H", "a", "m">>), Str(<<"f", "r", "e", "s", "h", " ", "h", "a", "m">>),
              Str(<<"B", "o", "b", "'", "s", " ", "H", "a", "m">>), Str(<<"T", "y", "s", "o", "n", " ", "/", "H", "a", "m">>), Str(<<"O", "'", "N", "e", "i", "l", "/", "H", "a", "m">>), Str(<<" ", "H", "e", "i", "n", "z", " ", "H", "a", "m">>)}
      [] k = "Product Category" -> {Absent, None_, Empty, Str(<<"M", "e", "a", "t">>), Num(4)}
      [] k \in {"Item Number", "Measured In"} -> {Absent, None_, Empty, Num(7)}
      [] OTHER -> {Absent}

RECURSIVE Deviate(_)
Deviate(n) ==
    IF n = 0 THEN {BaseItem}
    ELSE LET prev == Deviate(n - 1)
         IN  prev \cup UNION {{[it EXCEPT ![k] = v] : v \in Alternatives(k), it \in prev} :
                              k \in RawKeys}

RawItems == Deviate(MaxDeviations)

\* training.jsonl as load_jsonl_data returns it: missing, with examples of
\* two categories, or with an example whose category is null
TrainingSets ==
    {<<>>,
     <<Example(Str(<<"M", "e", "a", "t">>), Str(<<"H", "A", "M", " ", "C", "S">>), Str(Ham)),
       Example(Str(<<"d", "a", "i", "r", "y">>), Str(<<"M", "I", "L", "K">>), Str(<<"M", "i", "l", "k">>))>>,
     <<Example(None_, Str(<<"H", "A", "M", " ", "C", "S">>), Str(Ham))>>}

StandardizeReplies == {Failure, Reply(<<" ", "H", "a", "m", ",", " ", "D", "i", "c", "e", "d", "\n">>)}

EvaluateReplies ==
    {Failure,
     Reply(<<"L", "o", "o", "k", "s", " ", "f", "i", "n", "e">>),
     Reply(<<"F", "i", "n", "a", "l", " ", "c", "o", "r", "r", "e", "c", "t", "e", "d", " ", "n", "a", "m", "e", ":", " ", "H", "a", "m", ",", " ", "D", "i", "c", "e", "d", "\n", "E", "x", "p", "l", "a", "n", "a", "t", "i", "o", "n", ":", " ", "x">>),
     Reply(<<"f", "i", "n", "a", "l", " ", "c", "o", "r", "r", "e", "c", "t", "e", "d", " ", "n", "a", "m", "e", ":", " ", "P", "o", "r", "k", ":", "L", "o", "i", "n", " ", "\n", "F", "i", "n", "a", "l", " ", "c", "o", "r", "r", "e", "c", "t", "e", "d", " ", "n", "a", "m", "e", ":", " ", "H", "a", "m">>),
     Reply(<<"E", "x", "p", "l", "a", "n", "a", "t", "i", "o", "n", ":", " ", "x", "\n", "F", "I", "N", "A", "L", " ", "C", "O", "R", "R", "E", "C", "T", "E", "D", " ", "N", "A", "M", "E", ":">>)}

----------------------------------------------------------------------------
(* One item through process_single_item and the loop body of               *)
(* store_items_activity, one call at a time                                *)

IdleFrame ==
    [pc |-> "idle", itemdata |-> None_, training_data |-> <<>>,
     processed_item |-> None_, standardized_name |-> None_,
     evaluation |-> None_, final_name |-> None_, candidate2 |-> None_,
     evaluation2 |-> None_, final_name2 |-> None_, result |-> None_,
     replies |-> <<>>, prompts |-> <<>>, outcome |-> None_]

User1 == Str(<<"u", "1">>)
User2 == Str(<<"u", "2">>)
Invoice1 == Str(<<"i", "n", "v", "1">>)

InitItem ==
    /\ \E item \in RawItems, td \in TrainingSets :
           psi = [IdleFrame EXCEPT !.pc = "start",
                                   !.itemdata = ItemData(item, Invoice1, User1),
                                   !.training_data = td]
    /\ today = 1
    /\ requests = <<>>
    /\ orch = <<>>
    /\ docs = <<>>
    /\ written = <<>>
    /\ source = <<>>
    /\ llm = <<>>

Others == <<today, requests, orch, docs, written, source, llm>>

\* lines 225-249
PsiMap ==
    /\ psi.pc = "start"
    /\ LET mapped == MapRawItem(psi.itemdata)
       IN  psi' = IF mapped.ok
                  THEN [psi EXCEPT !.pc = "mapped", !.processed_item = mapped.v]
                  ELSE [psi EXCEPT !.pc = "returned", !.result = None_]
    /\ UNCHANGED Others

\* lines 251-257
PsiStandardize ==
    /\ psi.pc = "mapped"
    /\ \E r0 \in StandardizeReplies :
           LET std == standardize_item_name(
                          psi.processed_item["itemName"], psi.training_data,
                          psi.processed_item["productCategory"], r0)
           IN  psi' = IF std.ok
                      THEN [psi EXCEPT !.pc = "standardized",
                                       !.standardized_name = std.v,
                                       !.replies = <<r0>>,
                                       !.prompts = <<StandardizePrompt(
                                           psi.processed_item["itemName"],
                                           psi.training_data,
                                           psi.processed_item["productCategory"])>>]
                      ELSE [psi EXCEPT !.pc = "returned", !.result = None_]
    /\ UNCHANGED Others

\* the prompts sent so far and the one an evaluator call sends; a call
\* whose example filter raises sends none
Prompted(prompts, standardized_name, processed_item, training_data) ==
    IF FilterRaises(training_data, processed_item["productCategory"]) THEN prompts
    ELSE Append(prompts, EvaluatePrompt(standardized_name,
                                        processed_item["itemName"],
                                        processed_item["productCategory"],
                                        training_data))

\* lines 259-268
PsiEvaluate ==
    /\ psi.pc = "standardized"
    /\ \E r1 \in EvaluateReplies :
           LET evaluation == evaluate_and_correct_item_name(
                                 psi.standardized_name,
                                 psi.processed_item["itemName"],
                                 psi.processed_item["productCategory"],
                                 psi.training_data, r1)
           IN  psi' = [psi EXCEPT !.pc = "evaluated",
                                  !.evaluation = evaluation,
                                  !.final_name = extract_final_name(evaluation),
                                  !.replies = Append(@, r1),
                                  !.prompts = Prompted(@, psi.standardized_name,
                                                       psi.processed_item,
                                                       psi.training_data)]
    /\ UNCHANGED Others

\* lines 269-280
PsiEvaluateAgain ==
    /\ psi.pc = "evaluated"
    /\ \E r2 \in EvaluateReplies :
           LET candidate == SecondCandidate(psi.standardized_name, psi.final_name)
               evaluation2 == evaluate_and_correct_item_name(
                                  candidate,
                                  psi.processed_item["itemName"],
                                  psi.processed_item["productCategory"],
                                  psi.training_data, r2)
               final_name2 == extract_final_name(evaluation2)
           IN  psi' = [psi EXCEPT !.pc = "returned",
                                  !.candidate2 = candidate,
                                  !.evaluation2 = evaluation2,
                                  !.final_name2 = final_name2,
                                  !.result = AttachFinalName(psi.processed_item,
                                                             final_name2),
                                  !.replies = Append(@, r2),
                                  !.prompts = Prompted(@, candidate,
                                                       psi.processed_item,
                                                       psi.training_data)]
    /\ UNCHANGED Others

\* lines 316-359, for the item the activity returned, stored in batch 1
PsiStore ==
    /\ psi.pc = "returned"
    /\ psi.result # None_
    /\ psi' = [psi EXCEPT !.pc = "formatted",
                          !.outcome = StoreLoopBody(psi.result, 1)]
    /\ UNCHANGED Others

NextItem == PsiMap \/ PsiStandardize \/ PsiEvaluate \/ PsiEvaluateAgain \/ PsiStore

SpecItem == InitItem /\ [][NextItem]_vars

\* the calls made one at a time compose to process_single_item
StepwiseAgrees ==
    psi.pc \in {"returned", "formatted"} /\ Len(psi.replies) = 3 =>
        psi.result = process_single_item(psi.itemdata, psi.training_data,
                                         psi.replies[1], psi.replies[2],
                                         psi.replies[3])

----------------------------------------------------------------------------
(* Claims about one item *)

SecondCallMade == psi.pc \in {"returned", "formatted"} /\ Len(psi.replies) = 3

\* C1: the candidate name passed to the second evaluate-and-correct call is
\* the first round's extracted name n1 when extraction found one, otherwise
\* the first-pass standardized name s0, and it is never None.
C1_SecondCandidateIsN1OrS0 ==
    SecondCallMade =>
        /\ psi.candidate2 = IF psi.final_name # None_ THEN psi.final_name
                            ELSE psi.standardized_name
        /\ psi.candidate2 # None_

ItemStored == psi.pc = "formatted" /\ psi.outcome.kind = "stored"

\* C2: the stored record's 'Inventory Item Name' is the second-round name
\* n2 whenever the second extraction found a name, and otherwise the item's
\* original name; the first-round name n1 is never stored in place of an
\* absent n2.
C2_StoredNameIsSecondRoundOrOriginal ==
    ItemStored =>
        psi.outcome.rec["Inventory Item Name"] =
            IF Truthy(psi.final_name2) THEN psi.final_name2
            ELSE psi.processed_item["itemName"]

\* an item stored under its original name although round one found another
C2_Witness ==
    /\ ItemStored
    /\ Truthy(psi.final_name)
    /\ ~Truthy(psi.final_name2)
    /\ psi.final_name # psi.processed_item["itemName"]
    /\ psi.outcome.rec["Inventory Item Name"] = psi.processed_item["itemName"]

NonEmptyField(v) == v.t \in {"str", "num"} /\ (v.t = "str" => v.s # <<>>)

NonNegativeNumber(v) == v.t = "num" /\ v.n >= 0

StorageRecordInvariant(rec) ==
    /\ \A i \in 1..Len(RequiredFields) : NonEmptyField(rec[RequiredFields[i]])
    /\ \A i \in 1..Len(NumericFields) : NonNegativeNumber(rec[NumericFields[i]])

\* C10: every record the store appends has its four required fields
\* non-empty and its five numeric fields numbers >= 0.
C10_AppendedRecordIsValid ==
    ItemStored => StorageRecordInvariant(psi.outcome.rec)

----------------------------------------------------------------------------
(* src/function_app.py: extract_items_from_invoice and the item list the   *)
(* orchestrator builds                                                     *)

\* batch_size
BatchSize == 10

\* max_retries
MaxRetries == 3

\* `import asyncio` is not among the imports of function_app.py, so the
\* name asyncio in `await asyncio.sleep(1)` is unbound
AsyncioImported == FALSE

\* an invoice document of the source container: `nested` tells whether it
\* has an 'invoices' list; each part (a sub-invoice, or the invoice itself)
\* has its supplier, its number and the items found under 'List of Items'
\* or 'Items'
Part(supplier, number, items) ==
    [supplier |-> supplier, number |-> number, items |-> items]

Invoice(id, nested, parts) == [id |-> id, nested |-> nested, parts |-> parts]

\* lines 64-66 and 74-76: the supplier and the invoice number are written
\* into every item
Stamp(part) ==
    [j \in 1..Len(part.items) |->
        [part.items[j] EXCEPT !["Supplier Name"] = part.supplier,
                              !["Invoice Number"] = part.number]]

RECURSIVE Flatten(_)
Flatten(seqs) == IF seqs = <<>> THEN <<>> ELSE Head(seqs) \o Flatten(Tail(seqs))

\* extract_items_from_invoice: the items of all sub-invoices, or the
\* invoice's own items
extract_items_from_invoice(invoice) ==
    IF invoice.nested
    THEN Flatten([j \in 1..Len(invoice.parts) |-> Stamp(invoice.parts[j])])
    ELSE Stamp(invoice.parts[1])

\* lines 140-151
AllItems(invoices, user_id) ==
    Flatten([v \in 1..Len(invoices) |->
                LET items == extract_items_from_invoice(invoices[v])
                IN  [j \in 1..Len(items) |->
                        ItemData(items[j], invoices[v].id, user_id)]])

\* a slice that stops one element early
SliceShort(s, i, size) ==
    SubSeq(s, i + 1, IF i + size - 1 < Len(s) THEN i + size - 1 ELSE Len(s))

\* all_items[i:i + batch_size], i counted from 0
Slice(s, i, size) ==
    SubSeq(s, i + 1, IF i + size < Len(s) THEN i + size ELSE Len(s))

----------------------------------------------------------------------------
(* The Inventory container and store_items_activity                        *)

Users == {User1, User2}

\* a user id from the route that holds an apostrophe: it ends the string
\* literal of the query it is pasted into and adds a condition that is true
\* of every document
OrTrue == <<"'", " ", "O", "R", " ", "'", "1", "'", "=", "'", "1">>

QuotedUser == Str(<<"u", "9">> \o OrTrue)

\* the ids a document of the container can have
DocIds == Users \cup {QuotedUser}

EndsWith(s, p) == Len(s) >= Len(p) /\ SubSeq(s, Len(s) + 1 - Len(p), Len(s)) = p

\* line 298: the WHERE clause of f"SELECT * FROM c WHERE c.id = '{user_id}'"
\* as the container evaluates it on a document
WhereIdIs(user_id, doc) ==
    IF EndsWith(user_id.s, OrTrue) THEN TRUE ELSE doc.id = user_id

\* lines 299-305: existing_docs, and the documents existing_docs[0] can be;
\* without a match the activity starts a new document
existing_docs(container, user_id) ==
    {container[k] : k \in {d \in DOMAIN container :
                              container[d].exists /\ WhereIdIs(user_id, container[d])}}

NoDoc ==
    [exists |-> FALSE, id |-> None_, userId |-> None_, supplier_name |-> Empty,
     items |-> <<>>, itemCount |-> 0]

\* lines 305-311
NewUserDoc(user_id, items) ==
    [exists |-> TRUE, id |-> user_id, userId |-> user_id,
     supplier_name |-> IF items # <<>> THEN Get(items[1], "supplier", Empty)
                       ELSE Empty,
     items |-> <<>>, itemCount |-> 0]

FirstExisting(container, user_id) ==
    IF existing_docs(container, user_id) = {} THEN {NoDoc}
    ELSE existing_docs(container, user_id)

\* str(n) of an int n >= 0
RECURSIVE IntText(_)
IntText(n) ==
    IF n < 10 THEN <<CHOOSE c \in DOMAIN DigitVal : DigitVal[c] = n>>
    ELSE IntText(n \div 10) \o IntText(n % 10)

\* how an f-string renders a value
Render(v) ==
    CASE v.t = "str" -> v.s
      [] v.t = "num" -> IntText(v.n)
      [] v.t = "nan" -> <<"n", "a", "n">>
      [] OTHER -> <<"N", "o", "n", "e">>

\* lines 351 and 356: the text appended to errors
ErrorMessage(body, idx, user_id) ==
    IF body.kind = "invalid"
    THEN <<"I", "n", "v", "a", "l", "i", "d", " ", "i", "t", "e", "m", " ", "d", "a", "t", "a", " ", "f", "o", "r", " ", "i", "t", "e", "m", " ">> \o IntText(idx)
    ELSE <<"E", "r", "r", "o", "r", " ", "s", "t", "o", "r", "i", "n", "g", " ", "i", "t", "e", "m", " ">> \o IntText(idx) \o <<" ", "f", "o", "r", " ", "u", "s", "e", "r", " ">>
             \o Render(user_id) \o <<":", " ">> \o Render(body.detail)

\* `stored_count += 1`
CountStored(stored_count) == stored_count + 1

\* an element of errors: the message, with the index and the kind of the
\* rejection it came from
ErrorEntry(body, idx, user_id) ==
    [kind |-> body.kind, index |-> idx, message |-> ErrorMessage(body, idx, user_id)]

\* a loop that appends the records validate_storage_item rejects as well
AccumulateInvalid(acc, body, idx) ==
    CASE body.kind = "stored" ->
             [acc EXCEPT !.items = Append(@, body.rec),
                         !.stored_count = CountStored(@)]
      [] body.kind = "skipped" -> acc
      [] body.kind = "invalid" ->
             [acc EXCEPT !.items = Append(@, body.rec),
                         !.errors = Append(@, ErrorEntry(body, idx, acc.user_id))]
      [] OTHER ->
             [acc EXCEPT !.errors = Append(@, ErrorEntry(body, idx, acc.user_id))]

\* lines 316-359: one turn of the loop over the batch; acc holds the
\* document's items, stored_count and errors so far
Accumulate(acc, body, idx) ==
    CASE body.kind = "stored" ->
             [acc EXCEPT !.items = Append(@, body.rec),
                         !.stored_count = CountStored(@)]
      [] body.kind = "skipped" -> acc
      [] OTHER ->
             [acc EXCEPT !.errors = Append(@, ErrorEntry(body, idx, acc.user_id))]

RECURSIVE StoreLoop(_, _, _, _)
StoreLoop(items, idx, batch_num, acc) ==
    IF idx > Len(items) THEN acc
    ELSE StoreLoop(items, idx + 1, batch_num,
                   Accumulate(acc, StoreLoopBody(items[idx], batch_num), idx - 1))

\* `user_doc['itemCount'] = len(user_doc['items'])`
ItemCount(items) == Len(items)

\* a metadata update that counts the records before the loop appends
PreparedCountFirst(user_doc, acc) ==
    [user_doc |-> [user_doc EXCEPT !.items = acc.items,
                                   !.itemCount = ItemCount(user_doc.items)],
     stored_count |-> acc.stored_count,
     errors |-> acc.errors]

\* lines 296-363: the document read, the loop, and the metadata update
Prepared(user_doc, acc) ==
    [user_doc |-> [user_doc EXCEPT !.items = acc.items,
                                   !.itemCount = ItemCount(acc.items)],
     stored_count |-> acc.stored_count,
     errors |-> acc.errors]

LoopOver(user_doc, storedata) ==
    Prepared(user_doc,
             StoreLoop(storedata.items, 1, storedata.batch,
                       [items |-> user_doc.items, stored_count |-> 0,
                        errors |-> <<>>, user_id |-> storedata.user_id]))

\* an activity that starts a new document whatever it read
PrepareFreshDoc(existing, storedata) ==
    LoopOver(NewUserDoc(storedata.user_id, storedata.items), storedata)

PrepareUserDoc(existing, storedata) ==
    LoopOver(IF existing.exists THEN existing
             ELSE NewUserDoc(storedata.user_id, storedata.items),
             storedata)

\* a result that reports success as soon as one item was stored
StoreResultAnyStored(stored_count, errors, storedata) ==
    [status |-> IF stored_count > 0 THEN "success" ELSE "failure",
     batch |-> storedata.batch,
     stored_count |-> stored_count,
     total_items |-> Len(storedata.items),
     errors |-> errors,
     user_id |-> storedata.user_id]

\* lines 376-383
StoreResult(stored_count, errors, storedata) ==
    [status |-> IF stored_count = Len(storedata.items) THEN "success"
                ELSE IF stored_count > 0 THEN "partial_failure" ELSE "failure",
     batch |-> storedata.batch,
     stored_count |-> stored_count,
     total_items |-> Len(storedata.items),
     errors |-> errors,
     user_id |-> storedata.user_id]

\* lines 371-374, after a failed upsert: on the last attempt the fault is
\* raised again; before it, `asyncio.sleep` is evaluated, which raises
\* NameError when asyncio is unbound
RaisesAfterFailure(attempt) == attempt = MaxRetries - 1 \/ ~AsyncioImported

NoStoreData == [items |-> <<>>, user_id |-> None_, batch |-> 0]

IdleStore ==
    [pc |-> "idle", storedata |-> NoStoreData, user_doc |-> NoDoc,
     read_count |-> 0, stored_count |-> 0, errors |-> <<>>, attempt |-> 0,
     failed |-> 0, upserts |-> 0, runs |-> 0, result |-> None_]

----------------------------------------------------------------------------
(* process_items_orchestrator: one record per orchestration instance        *)

\* days the calendar can show
MaxDays == 2

Days == 1..MaxDays

\* f"process_items_{user_id}_{date}"
InstanceId(user_id, day) == <<user_id, day>>

InstanceIds == {InstanceId(u, d) : u \in Users, d \in Days}

NoInstance ==
    [status |-> "None", pc |-> "none", user_id |-> None_, fetched |-> FALSE,
     all_items |-> <<>>, i |-> 0, batches |-> <<>>, processed_count |-> 0,
     st |-> IdleStore, result |-> "none"]

\* (fetched is a ghost: the invoices activity has returned its list)
\* start_new: a fresh instance, not yet picked up by a worker
NewInstance(user_id) ==
    [NoInstance EXCEPT !.status = "Pending", !.pc = "start", !.user_id = user_id]

\* the training data every activity loads
SysTraining ==
    <<Example(Str(<<"M", "e", "a", "t">>), Str(<<"H", "A", "M", " ", "C", "S">>), Str(Ham)),
      Example(Str(<<"d", "a", "i", "r", "y">>), Str(<<"M", "I", "L", "K">>), Str(<<"M", "i", "l", "k">>))>>

\* lines 168-171: the batch starting at index i and a task for each of its
\* elements
ScheduleBatch(o, i) ==
    LET batch == Slice(o.all_items, i, BatchSize)
    IN  [o EXCEPT !.i = i,
                  !.pc = "await_tasks",
                  !.batches = Append(@,
                      [number |-> i \div BatchSize + 1,
                       tasks |-> [k \in 1..Len(batch) |->
                                     [input |-> batch[k], done |-> FALSE,
                                      result |-> None_]],
                       store |-> "none",
                       stored_count |-> 0])]

\* lines 189-195
Complete(o) == [o EXCEPT !.status = "Completed", !.pc = "done", !.result = "completed"]

\* lines 197-199: the fault leaves the orchestrator
Fail(o) == [o EXCEPT !.status = "Failed", !.pc = "done", !.result = "raised"]

\* the for loop's next turn: range(0, len(all_items), batch_size)
Advance(o) ==
    IF o.i + BatchSize < Len(o.all_items) THEN ScheduleBatch(o, o.i + BatchSize)
    ELSE Complete(o)

CurrentBatch(o) == o.batches[Len(o.batches)]

\* a task_all that resumes on the first result
TaskAnyDone(tasks) == \E k \in 1..Len(tasks) : tasks[k].done

\* context.task_all: the orchestrator resumes when every task has a result
TaskAllDone(tasks) == \A k \in 1..Len(tasks) : tasks[k].done

\* a batch whose results are dropped when one of them is None
AllOrNoResults(tasks) ==
    IF \E k \in 1..Len(tasks) : tasks[k].result = None_ THEN <<>>
    ELSE [k \in 1..Len(tasks) |-> tasks[k].result]

\* valid_results = [r for r in batch_results if r is not None]
ValidResults(tasks) ==
    LET done == SelectSeq(tasks, LAMBDA t : t.result # None_)
    IN  [k \in 1..Len(done) |-> done[k].result]

\* lines 172-186: what follows task_all: the store activity is called when
\* there are valid results, and the orchestrator waits for it
AfterTasks(o) ==
    LET valid == ValidResults(CurrentBatch(o).tasks)
        counted == [o EXCEPT !.processed_count = @ + Len(valid)]
    IN  IF valid # <<>>
        THEN [counted EXCEPT
                 !.pc = "await_store",
                 !.batches[Len(o.batches)].store = "scheduled",
                 !.st = [IdleStore EXCEPT
                            !.pc = "scheduled",
                            !.runs = 1,
                            !.storedata = [items |-> valid,
                                           user_id |-> o.user_id,
                                           batch |-> CurrentBatch(o).number]]]
        ELSE Advance(counted)

Active(o) == o.status = "Running"

\* a worker picks the instance up; it runs to its first yield, the call of
\* get_user_invoices_activity
OrchBegin(id) ==
    /\ orch[id].status = "Pending"
    /\ orch' = [orch EXCEPT ![id] = [@ EXCEPT !.status = "Running",
                                              !.pc = "await_invoices"]]
    /\ UNCHANGED <<psi, today, requests, docs, written, source, llm>>

\* an early return that is taken only when there are no invoices
NoInvoicesOnly(invoices, all_items) == invoices = <<>>

\* `if not invoices` (line 131) and `if not all_items` (line 153)
NothingToProcess(invoices, all_items) == invoices = <<>> \/ all_items = <<>>

\* lines 129-171: the invoices arrive; the run ends early without invoices
\* or items, and otherwise the first batch is scheduled
OrchInvoices(id) ==
    /\ Active(orch[id]) /\ orch[id].pc = "await_invoices"
    /\ LET o == [orch[id] EXCEPT !.fetched = TRUE]
           invoices == source[o.user_id]
           all_items == AllItems(invoices, o.user_id)
       IN  orch' = [orch EXCEPT ![id] =
                       IF NothingToProcess(invoices, all_items) THEN Complete(o)
                       ELSE ScheduleBatch([o EXCEPT !.all_items = all_items], 0)]
    /\ UNCHANGED <<psi, today, requests, docs, written, source, llm>>

\* lines 214-216: the query of get_user_invoices_activity raises
OrchInvoicesFail(id) ==
    /\ Active(orch[id]) /\ orch[id].pc = "await_invoices"
    /\ orch' = [orch EXCEPT ![id] = Fail(@)]
    /\ UNCHANGED <<psi, today, requests, docs, written, source, llm>>

\* one process_single_item activity of the current batch returns
TaskCompletes(id, k) ==
    /\ Active(orch[id]) /\ orch[id].pc = "await_tasks"
    /\ k \in 1..Len(CurrentBatch(orch[id]).tasks)
    /\ ~CurrentBatch(orch[id]).tasks[k].done
    /\ LET b == Len(orch[id].batches)
           input == orch[id].batches[b].tasks[k].input
       IN  orch' = [orch EXCEPT ![id].batches[b].tasks[k] =
                       [@ EXCEPT !.done = TRUE,
                                 !.result = process_single_item(
                                     input, SysTraining, llm[1], llm[2], llm[3])]]
    /\ UNCHANGED <<psi, today, requests, docs, written, source, llm>>

\* task_all returns
OrchCollect(id) ==
    /\ Active(orch[id]) /\ orch[id].pc = "await_tasks"
    /\ TaskAllDone(CurrentBatch(orch[id]).tasks)
    /\ orch' = [orch EXCEPT ![id] = AfterTasks(@)]
    /\ UNCHANGED <<psi, today, requests, docs, written, source, llm>>

----------------------------------------------------------------------------
(* store_items_activity, in the steps at which it touches the container     *)

\* how often the runtime runs one store activity again after a crash
MaxReexecutions == 1

Prepare(st, existing, prepared) ==
    [st EXCEPT !.pc = "upsert",
               !.user_doc = prepared.user_doc,
               !.read_count = Len(existing.items),
               !.stored_count = prepared.stored_count,
               !.errors = prepared.errors,
               !.attempt = 0,
               !.failed = 0]

ReadAndPrepare(st, existing) ==
    Prepare(st, existing, PrepareUserDoc(existing, st.storedata))

\* lines 289-363: the query for the user's document and everything up to
\* the first upsert
StoreRead(id) ==
    /\ Active(orch[id]) /\ orch[id].st.pc = "scheduled"
    /\ \E existing \in FirstExisting(docs, orch[id].st.storedata.user_id) :
           orch' = [orch EXCEPT ![id].st = ReadAndPrepare(@, existing)]
    /\ UNCHANGED <<psi, today, requests, docs, written, source, llm>>

\* lines 385-391: the query raises
StoreReadFails(id) ==
    /\ Active(orch[id]) /\ orch[id].st.pc = "scheduled"
    /\ orch' = [orch EXCEPT ![id].st.pc = "raised"]
    /\ UNCHANGED <<psi, today, requests, docs, written, source, llm>>

\* lines 367-383: one attempt of the upsert; ok tells whether the container
\* accepts it
StoreUpsert(id, ok) ==
    /\ Active(orch[id]) /\ orch[id].st.pc = "upsert"
    /\ LET st == orch[id].st
           doc_id == st.user_doc.id
       IN  IF ok
           THEN /\ docs' = [docs EXCEPT ![doc_id] = st.user_doc]
                /\ written' = [written EXCEPT ![doc_id] = @ + st.stored_count]
                /\ orch' = [orch EXCEPT ![id].st =
                               [st EXCEPT !.pc = "returned",
                                          !.upserts = @ + 1,
                                          !.result = StoreResult(st.stored_count,
                                                                 st.errors,
                                                                 st.storedata)]]
           ELSE /\ orch' = [orch EXCEPT ![id].st =
                               IF RaisesAfterFailure(st.attempt)
                               THEN [st EXCEPT !.pc = "raised", !.failed = @ + 1]
                               ELSE [st EXCEPT !.attempt = @ + 1, !.failed = @ + 1]]
                /\ UNCHANGED <<docs, written>>
    /\ UNCHANGED <<psi, today, requests, source, llm>>

\* the worker dies before the activity's outcome is recorded: the runtime
\* runs the activity again, with the same input
StoreReexecute(id) ==
    /\ Active(orch[id]) /\ orch[id].st.pc \in {"upsert", "returned"}
    /\ orch[id].st.runs <= MaxReexecutions
    /\ orch' = [orch EXCEPT ![id].st =
                   [IdleStore EXCEPT !.pc = "scheduled",
                                     !.storedata = orch[id].st.storedata,
                                     !.upserts = orch[id].st.upserts,
                                     !.runs = orch[id].st.runs + 1]]
    /\ UNCHANGED <<psi, today, requests, docs, written, source, llm>>

\* lines 179-187: the activity's result reaches the orchestrator, which goes
\* on with the next batch
OrchStored(id) ==
    /\ Active(orch[id]) /\ orch[id].pc = "await_store"
    /\ orch[id].st.pc = "returned"
    /\ LET o == orch[id]
           recorded == [o EXCEPT
                           !.batches[Len(o.batches)].store = "done",
                           !.batches[Len(o.batches)].stored_count =
                               o.st.result.stored_count,
                           !.st = IdleStore]
       IN  orch' = [orch EXCEPT ![id] = Advance(recorded)]
    /\ UNCHANGED <<psi, today, requests, docs, written, source, llm>>

\* the activity raised: the fault surfaces at the yield and leaves the
\* orchestrator
OrchStoreRaised(id) ==
    /\ Active(orch[id]) /\ orch[id].pc = "await_store"
    /\ orch[id].st.pc = "raised"
    /\ orch' = [orch EXCEPT ![id] = Fail(@)]
    /\ UNCHANGED <<psi, today, requests, docs, written, source, llm>>

----------------------------------------------------------------------------
(* http_start                                                              *)

\* requests that arrive in all
MaxRequests == 2

\* lines 92-99: the request is routed; the instance id is made of the user
\* id and the day the request arrives on
HttpArrive(user_id) ==
    /\ Len(requests) < MaxRequests
    /\ requests' = Append(requests,
           IF ~Truthy(user_id)
           THEN [user_id |-> user_id, instance_id |-> <<>>, pc |-> "done",
                 response |-> 400]
           ELSE [user_id |-> user_id, instance_id |-> InstanceId(user_id, today),
                 pc |-> "get_status", response |-> 0])
    /\ UNCHANGED <<psi, today, orch, docs, written, source, llm>>

\* lines 102-105: a Running or Pending instance of that id ends the request
HttpGetStatus(r) ==
    /\ r \in 1..Len(requests) /\ requests[r].pc = "get_status"
    /\ requests' = [requests EXCEPT ![r] =
           IF orch[requests[r].instance_id].status \in {"Running", "Pending"}
           THEN [@ EXCEPT !.pc = "done", !.response = 202]
           ELSE [@ EXCEPT !.pc = "start_new"]]
    /\ UNCHANGED <<psi, today, orch, docs, written, source, llm>>

\* lines 108-116: start_new.  When an instance of that id has become active
\* since get_status, the runtime either refuses (the request answers 500) or
\* replaces the instance by a new run
HttpStartNew(r, replace) ==
    /\ r \in 1..Len(requests) /\ requests[r].pc = "start_new"
    /\ LET id == requests[r].instance_id
           refused == orch[id].status \in {"Running", "Pending"} /\ ~replace
       IN  /\ requests' = [requests EXCEPT ![r] =
                  [@ EXCEPT !.pc = "done",
                            !.response = IF refused THEN 500 ELSE 202]]
           /\ orch' = IF refused THEN orch
                      ELSE [orch EXCEPT ![id] = NewInstance(requests[r].user_id)]
    /\ UNCHANGED <<psi, today, docs, written, source, llm>>

\* midnight
DayPasses ==
    /\ today < MaxDays
    /\ today' = today + 1
    /\ UNCHANGED <<psi, requests, orch, docs, written, source, llm>>

----------------------------------------------------------------------------
(* Initial states                                                          *)

\* the most items a user's invoices hold
MaxItems == 21

MissingNumber == [BaseItem EXCEPT !["Item Number"] = Absent]
BadPrice == [BaseItem EXCEPT !["Case Price"] = Str(<<"n", "/", "a">>)]

\* the k-th item of an invoice of the given kind
ItemOf(kind, k) ==
    CASE kind = "complete" -> BaseItem
      [] kind = "faulty" -> BadPrice
      [] OTHER -> IF k % 3 = 1 THEN BaseItem
                  ELSE IF k % 3 = 2 THEN MissingNumber ELSE BadPrice

ItemsOf(kind, first, last) == [j \in 1..(last + 1 - first) |-> ItemOf(kind, first + j - 1)]

Acme == Str(<<"A", "c", "m", "e">>)
Number1 == Str(<<"I", "1">>)

\* the invoices of a user with n items: complete items in one invoice,
\* mixed items in the sub-invoices of one document, faulty items in two
\* invoices
InvoicesOf(kind, n) ==
    CASE kind = "complete" ->
             <<Invoice(Invoice1, FALSE, <<Part(Acme, Number1, ItemsOf(kind, 1, n))>>)>>
      [] kind = "faulty" ->
             <<Invoice(Invoice1, FALSE, <<Part(Acme, Number1, ItemsOf(kind, 1, n \div 2))>>),
               Invoice(Invoice1, FALSE, <<Part(Acme, Number1, ItemsOf(kind, n \div 2 + 1, n))>>)>>
      [] OTHER ->
             <<Invoice(Invoice1, TRUE,
                       <<Part(Acme, Number1, ItemsOf(kind, 1, n \div 2)),
                         Part(Acme, Number1, <<>>),
                         Part(Acme, Number1, ItemsOf(kind, n \div 2 + 1, n))>>)>>

\* the item counts up to max at the edges of the first batch, and max
ItemCounts(max) ==
    {n \in 0..max : n \in {0, 1, BatchSize, BatchSize + 1} \/ n = max}

InvoiceSets(max) ==
    {<<>>} \cup {InvoicesOf(kind, n) :
                    kind \in {"complete", "mixed", "faulty"}, n \in ItemCounts(max)}

\* the language model fails every request, or answers every request
LlmModes ==
    {<<Failure, Failure, Failure>>,
     <<Reply(<<" ", "H", "a", "m", ",", " ", "D", "i", "c", "e", "d", "\n">>),
       Reply(<<"F", "i", "n", "a", "l", " ", "c", "o", "r", "r", "e", "c", "t", "e", "d", " ", "n", "a", "m", "e", ":", " ", "H", "a", "m", ",", " ", "D", "i", "c", "e", "d", "\n", "E", "x", "p", "l", "a", "n", "a", "t", "i", "o", "n", ":", " ", "x">>),
       Reply(<<"f", "i", "n", "a", "l", " ", "c", "o", "r", "r", "e", "c", "t", "e", "d", " ", "n", "a", "m", "e", ":", " ", "P", "o", "r", "k", ":", "L", "o", "i", "n", " ", "\n", "F", "i", "n", "a", "l", " ", "c", "o", "r", "r", "e", "c", "t", "e", "d", " ", "n", "a", "m", "e", ":", " ", "H", "a", "m">>)>>}

\* the document an earlier run of one complete item left
ExistingDoc(user_id) ==
    PrepareUserDoc(NoDoc,
        [items |-> <<process_single_item(ItemData(BaseItem, Invoice1, user_id),
                                         SysTraining, Failure, Failure, Failure)>>,
         user_id |-> user_id,
         batch |-> 1]).user_doc

InitCommon ==
    /\ psi = IdleFrame
    /\ today = 1
    /\ requests = <<>>
    /\ llm \in LlmModes

\* one orchestration of User1 has been started
InitOrch ==
    /\ InitCommon
    /\ \E invoices \in InvoiceSets(MaxItems) :
           source = [u \in Users |-> IF u = User1 THEN invoices ELSE <<>>]
    /\ \E doc \in {NoDoc, ExistingDoc(User1)} :
           docs = [u \in Users |-> IF u = User1 THEN doc ELSE NoDoc]
    /\ written = [u \in Users |-> Len(docs[u].items)]
    /\ orch = [id \in InstanceIds |->
                  IF id = InstanceId(User1, 1) THEN NewInstance(User1)
                  ELSE NoInstance]

\* the most items of User1 when requests race
MaxSmall == 2

\* nothing started yet; the requests decide
Init ==
    /\ InitCommon
    /\ \E invoices \in InvoiceSets(MaxSmall) :
           source = [u \in Users |-> IF u = User1 THEN invoices
                                     ELSE InvoicesOf("complete", 1)]
    /\ \E doc \in {NoDoc, ExistingDoc(User1)} :
           docs = [u \in Users |-> IF u = User1 THEN doc ELSE NoDoc]
    /\ written = [u \in Users |-> Len(docs[u].items)]
    /\ orch = [id \in InstanceIds |-> NoInstance]

----------------------------------------------------------------------------
(* Specifications                                                          *)

NextOrch ==
    \E id \in InstanceIds :
        \/ OrchBegin(id)
        \/ OrchInvoices(id)
        \/ OrchInvoicesFail(id)
        \/ \E k \in 1..BatchSize : TaskCompletes(id, k)
        \/ OrchCollect(id)
        \/ StoreRead(id)
        \/ StoreReadFails(id)
        \/ \E ok \in BOOLEAN : StoreUpsert(id, ok)
        \/ StoreReexecute(id)
        \/ OrchStored(id)
        \/ OrchStoreRaised(id)

NextHttp ==
    \/ \E user_id \in Users \cup {Empty} : HttpArrive(user_id)
    \/ \E r \in 1..MaxRequests, replace \in BOOLEAN :
           HttpGetStatus(r) \/ HttpStartNew(r, replace)
    \/ DayPasses

Next == NextHttp \/ NextOrch

\* requests, orchestrations and activities in any interleaving
Spec == Init /\ [][Next]_vars

\* one orchestration run, with up to MaxItems items
SpecOrch == InitOrch /\ [][NextOrch]_vars

----------------------------------------------------------------------------
(* Claims about requests, orchestrations and the Inventory container       *)

RunningOf(user_id) ==
    {id \in InstanceIds : orch[id].status = "Running" /\ orch[id].user_id = user_id}

\* C3: whatever http_start requests arrive (on different days, or racing
\* between get_status and start_new), at most one orchestration instance of
\* a user is Running at any time
C3_OneRunningInstancePerUser ==
    \A u \in Users : Cardinality(RunningOf(u)) <= 1

AllFinished(user_id) ==
    \A id \in InstanceIds :
        orch[id].user_id = user_id => orch[id].status \in {"Completed", "Failed"}

\* C4: once all executions for a user have finished, the user's document
\* holds every record counted in the stored_count of an execution that
\* returned (and the records it held before): no update is lost
C4_NoLostUpdates ==
    \A u \in Users :
        AllFinished(u) => Len(docs[u].items) >= written[u]

\* the second or later execution of a store activity writes its document
SecondWrite(id) ==
    /\ orch[id].st.pc = "upsert"
    /\ orch[id].st.upserts >= 1
    /\ orch'[id].st.pc = "returned"

\* C5: executing store_items_activity again with the same input leaves the
\* user's document with the list of records the first execution left
C5_StoreIsIdempotent ==
    [][\A id \in InstanceIds :
          SecondWrite(id) =>
              docs'[orch[id].st.storedata.user_id].items =
                  docs[orch[id].st.storedata.user_id].items]_vars

\* C6: store_items_activity raises out of the upsert only after three
\* consecutive failed attempts; a first or second failure is followed by
\* another attempt
C6_RaisesOnlyAfterThreeFailures ==
    \A id \in InstanceIds :
        (orch[id].st.pc = "raised" /\ orch[id].st.failed > 0)
            => orch[id].st.failed = 3

\* every task of the batch has completed, and so has the batch's store
\* activity when the batch has a result that is not None
BatchOver(batch) ==
    /\ \A k \in 1..Len(batch.tasks) : batch.tasks[k].done
    /\ (\E k \in 1..Len(batch.tasks) : batch.tasks[k].result # None_)
           => batch.store = "done"

\* C7: when the tasks of batch N+1 have been scheduled, every task of batch N
\* has completed and so has batch N's store activity, if it had one
C7_BatchesInSequence ==
    \A id \in InstanceIds :
        \A b \in 2..Len(orch[id].batches) : BatchOver(orch[id].batches[b - 1])

C7_Witness ==
    \E id \in InstanceIds :
        /\ Len(orch[id].batches) = 3
        /\ orch[id].batches[1].store = "done"
        /\ orch[id].batches[2].store = "done"
        /\ \E k \in 1..Len(orch[id].batches[3].tasks) :
               ~orch[id].batches[3].tasks[k].done

\* the b-th batch holds the b-th ten items of the list, or the rest of it
IsBatchOf(batch, b, all_items) ==
    /\ batch.number = b
    /\ Len(batch.tasks) =
           IF 10 * b <= Len(all_items) THEN 10 ELSE Len(all_items) - 10 * (b - 1)
    /\ Len(batch.tasks) >= 1
    /\ \A k \in 1..Len(batch.tasks) :
           batch.tasks[k].input = all_items[10 * (b - 1) + k]

\* C8: the batches are numbered 1.. in order, each holds the next ten items
\* of the list (the last one the rest, at least one item), and a run over
\* n > 0 items that returns has produced ceil(n/10) of them
C8_BatchesPartitionItems ==
    \A id \in InstanceIds :
        /\ \A b \in 1..Len(orch[id].batches) :
               IsBatchOf(orch[id].batches[b], b, orch[id].all_items)
        /\ (orch[id].result = "completed" /\ Len(orch[id].all_items) > 0)
               => Len(orch[id].batches) = (Len(orch[id].all_items) + 9) \div 10

C8_Witness ==
    \E id \in InstanceIds :
        /\ orch[id].result = "completed"
        /\ Len(orch[id].all_items) > 20
        /\ Len(orch[id].batches) = 3
        /\ Len(orch[id].batches[3].tasks) = 1

\* the records stored by the batches before batch k, as the orchestrator
\* received them in the results of their store activities
RECURSIVE StoredBefore(_, _)
StoredBefore(batches, k) ==
    IF k <= 1 THEN 0
    ELSE batches[k - 1].stored_count + StoredBefore(batches, k - 1)

Wrote(id) == Active(orch[id]) /\ orch[id].st.pc = "returned"

\* C9 as stated: the itemCount that batch k's write puts in the document is
\* the number of records stored by batches 1..k-1 of the run plus the number
\* stored by batch k
C9_ItemCountIsRunTotal ==
    \A id \in InstanceIds :
        Wrote(id) =>
            docs[orch[id].user_id].itemCount =
                StoredBefore(orch[id].batches, orch[id].st.storedata.batch)
                    + orch[id].st.stored_count

\* C9 amended: the itemCount that batch k's write puts in the document is
\* the number of records the document held when the execution read it plus
\* the number stored by batch k
C9_ItemCountIsReadPlusStored ==
    \A id \in InstanceIds :
        Wrote(id) =>
            /\ docs[orch[id].user_id].itemCount =
                   orch[id].st.read_count + orch[id].st.stored_count
            /\ docs[orch[id].user_id].itemCount =
                   Len(docs[orch[id].user_id].items)

C9_Witness ==
    \E id \in InstanceIds :
        /\ Wrote(id)
        /\ orch[id].st.storedata.batch = 3
        /\ orch[id].st.stored_count > 0
        /\ orch[id].st.read_count >
               StoredBefore(orch[id].batches, orch[id].st.storedata.batch)

----------------------------------------------------------------------------
(* store_items_activity called with a batch of its own                     *)

\* the most items of a batch handed to the activity directly
MaxBatch == 2

\* the processed item of the complete raw item
ProcBase ==
    process_single_item(ItemData(BaseItem, Invoice1, User1), SysTraining,
                        Failure, Failure, Failure)

\* `{}`
EmptyItem == [k \in ProcKeys |-> Absent]

\* the items of a batch: the complete one, items whose Case Price is another
\* number, a str, null or missing, items without Item Number, an item with
\* a corrected name, and the empty item
StoreInputs ==
    {ProcBase, EmptyItem,
     [ProcBase EXCEPT !["final_corrected_name"] = Str(<<"H", "a", "m", ",", " ", "D", "i", "c", "e", "d">>)],
     [ProcBase EXCEPT !["itemNumber"] = Absent],
     [ProcBase EXCEPT !["itemNumber"] = Empty]}
    \cup {[ProcBase EXCEPT !["casePrice"] = v] :
              v \in {Num(0), Num(0 - 1), Str(<<"3">>), Str(<<"n", "/", "a">>), None_, Absent}}

StoreBatches(max) == UNION {[1..n -> StoreInputs] : n \in 0..max}

\* the user ids the activity is called with, and the documents other users
\* have in the container
StoreUsers == {User1, QuotedUser}

\* the activity has been called with a batch for the user
StoreCall(user_id, items) ==
    [NewInstance(user_id) EXCEPT
        !.status = "Running",
        !.pc = "await_store",
        !.st = [IdleStore EXCEPT
                   !.pc = "scheduled",
                   !.runs = 1,
                   !.storedata = [items |-> items, user_id |-> user_id, batch |-> 1]]]

InitStore ==
    /\ psi = IdleFrame
    /\ today = 1
    /\ requests = <<>>
    /\ llm = <<Failure, Failure, Failure>>
    /\ source = [u \in Users |-> <<>>]
    /\ \E doc1 \in {NoDoc, ExistingDoc(User1)}, doc2 \in {NoDoc, ExistingDoc(User2)} :
           docs = [d \in DocIds |-> IF d = User1 THEN doc1
                                    ELSE IF d = User2 THEN doc2 ELSE NoDoc]
    /\ written = [d \in DocIds |-> Len(docs[d].items)]
    /\ \E user_id \in StoreUsers, items \in StoreBatches(MaxBatch) :
           orch = [id \in InstanceIds |->
                      IF id = InstanceId(User1, 1) THEN StoreCall(user_id, items)
                      ELSE NoInstance]

NextStore ==
    \E id \in InstanceIds :
        \/ StoreRead(id)
        \/ StoreReadFails(id)
        \/ \E ok \in BOOLEAN : StoreUpsert(id, ok)

\* one execution of store_items_activity
SpecStore == InitStore /\ [][NextStore]_vars

----------------------------------------------------------------------------
(* Claims about the batch handed to store_items_activity                   *)

\* the value the storage record gets for a validated field, missing fields
\* of the item taking their defaults
RecordValue(item, field) ==
    CASE field = "Inventory Item Name" ->
             Get(item, "final_corrected_name", Get(item, "itemName", Empty))
      [] field = "Item Number" -> Get(item, "itemNumber", Empty)
      [] field = "Category" -> Get(item, "productCategory", Empty)
      [] field = "Measured In" -> Get(item, "measuredIn", Empty)
      [] field = "Quantity In a Case" -> Get(item, "quantityInCase", Num(0))
      [] field = "Measurement Of Each Item" -> Get(item, "measurementOfEachItem", Num(0))
      [] field = "Total Units" -> Get(item, "totalUnitsOrdered", Num(0))
      [] field = "Case Price" -> Get(item, "casePrice", Num(0))
      [] field = "Cost of a Unit" -> Get(item, "costOfUnit", Num(0))

RequiredNames == {"Inventory Item Name", "Item Number", "Category", "Measured In"}

NumericNames ==
    {"Quantity In a Case", "Measurement Of Each Item", "Total Units", "Case Price",
     "Cost of a Unit"}

\* the validated fields of the item that break the StorageRecord invariant
Offending(item) ==
    {f \in RequiredNames : ~NonEmptyField(RecordValue(item, f))}
        \cup {f \in NumericNames : ~NonNegativeNumber(RecordValue(item, f))}

\* the activity has gone through its loop
Looped(id) == Active(orch[id]) /\ orch[id].st.pc \in {"upsert", "returned"}

\* the item at position i (from 1) of the batch was rejected: errors holds
\* an entry for it
Rejected(id, i) ==
    \E e \in 1..Len(orch[id].st.errors) : orch[id].st.errors[e].index = i - 1

\* C11: an item of the batch is accepted exactly when its five numeric
\* fields are numbers >= 0 and its four required text fields are non-empty;
\* an item whose Case Price is negative or a str is rejected
C11_AcceptsExactlyValidItems ==
    \A id \in InstanceIds :
        Looped(id) =>
            \A i \in 1..Len(orch[id].st.storedata.items) :
                LET item == orch[id].st.storedata.items[i]
                IN  ~IsEmptyItem(item) =>
                        /\ Rejected(id, i) <=> Offending(item) # {}
                        /\ RecordValue(item, "Case Price").t = "str"
                               => Rejected(id, i)

FieldText ==
    [f \in RequiredNames \cup NumericNames |->
        CASE f = "Inventory Item Name" -> <<"I", "n", "v", "e", "n", "t", "o", "r", "y", " ", "I", "t", "e", "m", " ", "N", "a", "m", "e">>
          [] f = "Item Number" -> <<"I", "t", "e", "m", " ", "N", "u", "m", "b", "e", "r">>
          [] f = "Category" -> <<"C", "a", "t", "e", "g", "o", "r", "y">>
          [] f = "Measured In" -> <<"M", "e", "a", "s", "u", "r", "e", "d", " ", "I", "n">>
          [] f = "Quantity In a Case" -> <<"Q", "u", "a", "n", "t", "i", "t", "y", " ", "I", "n", " ", "a", " ", "C", "a", "s", "e">>
          [] f = "Measurement Of Each Item" -> <<"M", "e", "a", "s", "u", "r", "e", "m", "e", "n", "t", " ", "O", "f", " ", "E", "a", "c", "h", " ", "I", "t", "e", "m">>
          [] f = "Total Units" -> <<"T", "o", "t", "a", "l", " ", "U", "n", "i", "t", "s">>
          [] f = "Case Price" -> <<"C", "a", "s", "e", " ", "P", "r", "i", "c", "e">>
          [] f = "Cost of a Unit" -> <<"C", "o", "s", "t", " ", "o", "f", " ", "a", " ", "U", "n", "i", "t">>]

\* sub occurs in s
Contains(s, sub) ==
    \E i \in 1..(Len(s) + 1 - Len(sub)) : SubSeq(s, i, i + Len(sub) - 1) = sub

\* C12: the reason added to errors for an item rejected over a missing
\* required field or an invalid numeric field names an offending field
C12_ReasonNamesOffendingField ==
    \A id \in InstanceIds :
        Looped(id) =>
            \A e \in 1..Len(orch[id].st.errors) :
                LET entry == orch[id].st.errors[e]
                    item == orch[id].st.storedata.items[entry.index + 1]
                IN  Offending(item) # {} =>
                        \E f \in Offending(item) :
                            Contains(entry.message, FieldText[f])

\* C13: a returned result has total_items = the number of items of the
\* batch, stored_count = the number of records the execution appended, and
\* the status that stored_count and total_items determine
C13_ResultStatusFollowsCounts ==
    \A id \in InstanceIds :
        Wrote(id) =>
            LET r == orch[id].st.result
            IN  /\ r.total_items = Len(orch[id].st.storedata.items)
                /\ r.stored_count =
                       Len(docs[orch[id].st.user_doc.id].items) - orch[id].st.read_count
                /\ r.status \in {"success", "partial_failure", "failure"}
                /\ r.status = "success" <=> r.stored_count = r.total_items
                /\ r.status = "partial_failure" <=>
                       (0 < r.stored_count /\ r.stored_count < r.total_items)
                /\ r.status = "failure" <=>
                       (r.stored_count = 0 /\ 0 < r.total_items)

\* one valid item and one without Item Number: 1 of 2 stored
C13_Witness ==
    \E id \in InstanceIds :
        /\ Wrote(id)
        /\ orch[id].st.storedata.items =
               <<ProcBase, [ProcBase EXCEPT !["itemNumber"] = Absent]>>
        /\ orch[id].st.result.stored_count = 1
        /\ orch[id].st.result.total_items = 2
        /\ orch[id].st.result.status = "partial_failure"

----------------------------------------------------------------------------
(* Claims about the faults of the name pipeline                            *)

\* standardize_item_name has been called and the call is over
StandardizeCalled ==
    psi.pc \in {"standardized", "evaluated", "returned", "formatted"}
        /\ psi.processed_item # None_

\* C14: standardize_item_name raises for no description, category and
\* training data: it returns the description when the request fails and the
\* trimmed response otherwise
C14_StandardizeNeverRaises ==
    StandardizeCalled =>
        /\ Len(psi.replies) >= 1
        /\ psi.standardized_name =
               IF psi.replies[1].ok THEN Str(Strip(psi.replies[1].content))
               ELSE psi.processed_item["itemName"]

ErrorPrefix == <<"E", "r", "r", "o", "r", ":">>

\* the first evaluation is over and its request had failed
FirstEvaluationFailed ==
    psi.pc \in {"evaluated", "returned", "formatted"}
        /\ Len(psi.replies) >= 2 /\ ~psi.replies[2].ok

\* both evaluations are over and both requests had failed
BothEvaluationsFailed ==
    psi.pc \in {"returned", "formatted"}
        /\ Len(psi.replies) = 3 /\ ~psi.replies[2].ok /\ ~psi.replies[3].ok

\* C15: a failed evaluator request yields a str that starts with 'Error:',
\* from which no name is extracted; an item whose two evaluator requests
\* fail is returned without final_corrected_name, and the error text is not
\* the name it is stored under
C15_EvaluatorFailureIsAbsorbed ==
    /\ FirstEvaluationFailed =>
           /\ psi.evaluation.t = "str"
           /\ StartsWith(psi.evaluation.s, ErrorPrefix)
           /\ psi.final_name = None_
    /\ BothEvaluationsFailed =>
           /\ StartsWith(psi.evaluation2.s, ErrorPrefix)
           /\ psi.final_name2 = None_
           /\ psi.result # None_
           /\ psi.result["final_corrected_name"] = Absent
           /\ ItemStored =>
                  /\ psi.outcome.rec["Inventory Item Name"] # psi.evaluation
                  /\ psi.outcome.rec["Inventory Item Name"] # psi.evaluation2
                  /\ psi.outcome.rec["Inventory Item Name"] =
                         psi.processed_item["itemName"]

C15_Witness == BothEvaluationsFailed /\ ItemStored

----------------------------------------------------------------------------
(* Claims about faults inside a batch and inside a run                      *)

\* how many of the first k tasks returned an item
ResultsUpTo(tasks, k) == Cardinality({j \in 1..k : tasks[j].result # None_})

\* the store activity's input holds the results that are not None, in the
\* order of their tasks
PassedOn(tasks, items) ==
    /\ Len(items) = ResultsUpTo(tasks, Len(tasks))
    /\ \A k \in 1..Len(tasks) :
           tasks[k].result # None_ => items[ResultsUpTo(tasks, k)] = tasks[k].result

\* the loop of store_items_activity accepts the item
Accepted(item, batch_num) == StoreLoopBody(item, batch_num).kind = "stored"

AcceptedUpTo(items, batch_num, k) ==
    Cardinality({j \in 1..k : Accepted(items[j], batch_num)})

\* the written document holds, after the records that were read, the record
\* of every accepted item of the input, in the order of the input
AppendedAll(st, doc) ==
    /\ Len(doc.items) =
           st.read_count + AcceptedUpTo(st.storedata.items, st.storedata.batch,
                                        Len(st.storedata.items))
    /\ \A k \in 1..Len(st.storedata.items) :
           Accepted(st.storedata.items[k], st.storedata.batch) =>
               doc.items[st.read_count
                             + AcceptedUpTo(st.storedata.items, st.storedata.batch, k)]
                   = StoreLoopBody(st.storedata.items[k], st.storedata.batch).rec

\* C16: the items of a batch for which process_single_item returned a result
\* are all passed to store_items_activity, whatever the other tasks of the
\* batch returned (only a batch without any result has no store activity); and the document store_items_activity writes holds the
\* record of every item of its input that passes formatting and validation,
\* whatever happened to the other items
C16_ItemFailureKeepsBatch ==
    \A id \in InstanceIds :
        /\ orch[id].pc = "await_store" =>
               PassedOn(CurrentBatch(orch[id]).tasks, orch[id].st.storedata.items)
        /\ \A b \in 1..Len(orch[id].batches) :
               (orch[id].batches[b].store = "none"
                    /\ (b < Len(orch[id].batches) \/ orch[id].pc = "done"))
                   => \A k \in 1..Len(orch[id].batches[b].tasks) :
                          orch[id].batches[b].tasks[k].result = None_
        /\ Wrote(id) => AppendedAll(orch[id].st, docs[orch[id].user_id])

\* a batch in which a task returned None and another an item the store
\* rejects has been written, with a record of a third
C16_Witness ==
    \E id \in InstanceIds :
        /\ Wrote(id)
        /\ \E k \in 1..Len(CurrentBatch(orch[id]).tasks) :
               CurrentBatch(orch[id]).tasks[k].result = None_
        /\ orch[id].st.errors # <<>>
        /\ orch[id].st.stored_count > 0
        /\ \E k \in 2..Len(orch[id].st.storedata.items) :
               /\ Accepted(orch[id].st.storedata.items[k], orch[id].st.storedata.batch)
               /\ ~Accepted(orch[id].st.storedata.items[k - 1], orch[id].st.storedata.batch)

\* C17: a run that has scheduled a batch raises only when a store activity
\* raised after three failed attempts of its upsert; nothing else that
\* happens inside a batch, a failed read of the user's document included,
\* ends the run in failure
C17_FailsOnlyAfterThreeUpserts ==
    \A id \in InstanceIds :
        (orch[id].result = "raised" /\ orch[id].batches # <<>>)
            => (orch[id].st.pc = "raised" /\ orch[id].st.failed = MaxRetries)

\* the invoices were fetched and there was nothing to process in them
FetchedNothing(id) ==
    /\ orch[id].fetched
    /\ AllItems(source[orch[id].user_id], orch[id].user_id) = <<>>

\* C18: a run whose user has no invoices, or whose invoices yield no items,
\* returns 'completed' with processed_count 0 as soon as the invoices have
\* arrived: it does not raise and schedules no process_single_item and no
\* store_items_activity
C18_NothingToProcessEndsEarly ==
    \A id \in InstanceIds :
        FetchedNothing(id) =>
            /\ orch[id].status = "Completed"
            /\ orch[id].result = "completed"
            /\ orch[id].processed_count = 0
            /\ orch[id].batches = <<>>
            /\ orch[id].st = IdleStore

\* a run over invoices without items has ended
C18_Witness ==
    \E id \in InstanceIds :
        /\ FetchedNothing(id)
        /\ source[orch[id].user_id] # <<>>
        /\ orch[id].pc = "done"

----------------------------------------------------------------------------
(* Claims about raw items with missing fields and about the extraction of  *)
(* the final name                                                          *)

\* the raw item is the complete item with some of its fields left out
OnlyMissing(item) == \A k \in RawKeys : item[k] \in {BaseItem[k], Absent}

\* the text and the numeric fields of a raw item, with the fields of the
\* processed item they are mapped to
TextFields ==
    {<<"Item Name", "itemName">>, <<"Item Number", "itemNumber">>,
     <<"Measured In", "measuredIn">>, <<"Catch Weight", "catchWeight">>,
     <<"Priced By", "pricedBy">>, <<"Splitable", "splitable">>,
     <<"Split Price", "splitPrice">>, <<"Product Category", "productCategory">>}

NumberFields ==
    {<<"Quantity In a Case", "quantityInCase">>,
     <<"Measurement Of Each Item", "measurementOfEachItem">>,
     <<"Total Units Ordered", "totalUnitsOrdered">>,
     <<"Case Price", "casePrice">>, <<"Cost of a Unit", "costOfUnit">>}

\* every text field the raw item lacks is '' in the processed item, and
\* every numeric field it lacks is 0
DefaultsIn(item, result, text, numbers) ==
    /\ \A f \in text : item[f[1]] = Absent => result[f[2]] = Empty
    /\ \A f \in numbers : item[f[1]] = Absent => result[f[2]] = Num(0)

\* C19: for a raw item with fields missing, process_single_item returns a
\* processed item (it does not fault) in which every missing text field is
\* the empty string and every missing numeric field is zero, and the loop of
\* store_items_activity stores that item or rejects it with a reason, without
\* a fault
C19_MissingFieldsGetDefaults ==
    (psi.pc \in {"returned", "formatted"} /\ OnlyMissing(psi.itemdata.item)) =>
        /\ psi.result # None_
        /\ DefaultsIn(psi.itemdata.item, psi.result, TextFields, NumberFields)
        /\ psi.pc = "formatted" => psi.outcome.kind \in {"stored", "invalid"}

\* the lines of the text whose lowercase form starts with the label
Labelled(text) ==
    {i \in 1..Len(Split(text, "\n")) :
        StartsWith(Lower(Split(text, "\n")[i]), FinalNameLabel)}

\* the line of the text with the least index in the set
FirstOf(text, indexes) ==
    Split(text, "\n")[CHOOSE i \in indexes : \A j \in indexes : i <= j]

\* the label ends with the line's first colon: the text after it, trimmed
NameAfterLabel(line) ==
    Str(Strip(SubSeq(line, Len(FinalNameLabel) + 1, Len(line))))

Extracted(text, name) ==
    IF Labelled(text.s) = {} THEN name = None_
    ELSE name = NameAfterLabel(FirstOf(text.s, Labelled(text.s)))

\* C20: extract_final_name returns, for the first line of the evaluation
\* text whose lowercase form starts with 'final corrected name:', the text
\* after that line's first colon with the whitespace around it trimmed,
\* whatever colons and labelled lines follow; it returns None when no line
\* starts with the label; it does not raise
C20_ExtractsFirstLabelledLine ==
    /\ (psi.pc \in {"evaluated", "returned", "formatted"} /\ Len(psi.replies) >= 2)
           => Extracted(psi.evaluation, psi.final_name)
    /\ SecondCallMade => Extracted(psi.evaluation2, psi.final_name2)

\* a name with a colon of its own was extracted from a text with two
\* labelled lines
C20_Witness ==
    /\ SecondCallMade
    /\ Cardinality(Labelled(psi.evaluation2.s)) = 2
    /\ psi.final_name2 = Str(<<"P", "o", "r", "k", ":", "L", "o", "i", "n">>)
    /\ psi.final_name = None_

----------------------------------------------------------------------------
(* Claims about the category rules and the brand                           *)

\* the rules of the key that equals the category when letter case is
\* ignored, and no rules when there is no such key
RulesIgnoringCase(category) ==
    IF category.t = "str"
           /\ \E k \in DOMAIN RuleKeys : Lower(RuleKeys[k]) = Lower(category.s)
    THEN RuleLists[CHOOSE k \in DOMAIN RuleKeys :
                       Lower(RuleKeys[k]) = Lower(category.s)]
    ELSE <<>>

\* C21: the rules in every prompt that standardize_item_name and
\* evaluate_and_correct_item_name send are those of the rule set's key that
\* equals the item's category when letter case is ignored; only a category
\* that equals no key in any casing gets the empty list
C21_RulesFoundInAnyCase ==
    \A i \in 1..Len(psi.prompts) :
        psi.prompts[i].rules = RulesIgnoringCase(psi.processed_item["productCategory"])

\* the record the loop of store_items_activity built for the item
Formatted == psi.pc = "formatted" /\ psi.outcome.rec # None_

HasChar(s, c) == \E i \in 1..Len(s) : s[i] = c

\* the text before the first occurrence of c in s
Before(s, c) ==
    SubSeq(s, 1, (CHOOSE i \in 1..Len(s) :
                      s[i] = c /\ \A j \in 1..(i - 1) : s[j] # c) - 1)

\* the first word of s: from its first character that is no whitespace to
\* the last one before the next whitespace
FirstWord(s) ==
    LET a == CHOOSE i \in 1..Len(s) :
                 ~IsSpace(s[i]) /\ \A j \in 1..(i - 1) : IsSpace(s[j])
        b == CHOOSE i \in a..Len(s) :
                 /\ \A j \in a..i : ~IsSpace(s[j])
                 /\ (i = Len(s) \/ IsSpace(s[i + 1]))
    IN  SubSeq(s, a, b)

\* the brand by the rules in their priority; trimmed tells whether the text
\* before the '/' or the apostrophe loses the whitespace around it
BrandByPriority(name, trimmed) ==
    IF name.t # "str" THEN Generic
    ELSE IF HasChar(name.s, "/")
         THEN Str(IF trimmed THEN Strip(Before(name.s, "/")) ELSE Before(name.s, "/"))
    ELSE IF HasChar(name.s, "'")
         THEN Str(IF trimmed THEN Strip(Before(name.s, "'")) ELSE Before(name.s, "'"))
    ELSE IF \E i \in 1..Len(name.s) : ~IsSpace(name.s[i])
         THEN IF IsUpper(FirstWord(name.s)[1]) THEN Str(FirstWord(name.s))
              ELSE Generic
    ELSE Generic

\* C22 as stated: the brand of a record is the text before the first '/' of
\* the item name; without '/', the text before the first apostrophe;
\* without either, the first word when it starts with an uppercase letter;
\* and 'Generic' otherwise
C22_BrandIsTextBefore ==
    Formatted =>
        psi.outcome.rec["Brand"] = BrandByPriority(psi.result["itemName"], FALSE)

\* C22 amended: as stated, with the text before the '/' or the apostrophe
\* stripped of the whitespace around it; a name that is no str gives
\* 'Generic'
C22_BrandIsTrimmedTextBefore ==
    Formatted =>
        psi.outcome.rec["Brand"] = BrandByPriority(psi.result["itemName"], TRUE)

\* a name with a blank before its '/' got the text before the blank
C22_Witness ==
    /\ Formatted
    /\ psi.result["itemName"] = Str(<<"T", "y", "s", "o", "n", " ", "/", "H", "a", "m">>)
    /\ psi.outcome.rec["Brand"] = Str(<<"T", "y", "s", "o", "n">>)

----------------------------------------------------------------------------
(* Claims about the documents store_items_activity reads and writes        *)

\* the execution reads its document
Reads(id) == orch[id].st.pc = "scheduled" /\ orch'[id].st.pc = "upsert"

\* the execution's upsert is accepted
Upserts(id) == orch[id].st.pc = "upsert" /\ orch'[id].st.pc = "returned"

\* C23: an execution of store_items_activity for a user reads the document
\* whose id is the user's id, or starts one with that id, and its upsert
\* leaves the document of every other id as it was
C23_TouchesOwnDocumentOnly ==
    [][\A id \in InstanceIds :
          /\ Reads(id) =>
                 orch'[id].st.user_doc.id = orch[id].st.storedata.user_id
          /\ Upserts(id) =>
                 \A d \in DOMAIN docs :
                     d # orch[id].st.storedata.user_id => docs'[d] = docs[d]]_vars

\* C24: the document an execution upserts holds the records of the document
\* it read, unchanged and in their order, and after them the records of the
\* batch's accepted items in the order of the input: nothing is removed,
\* replaced or reordered
C24_StoreOnlyAppends ==
    [][\A id \in InstanceIds :
          Upserts(id) =>
              /\ orch[id].st.read_count = Len(docs[orch[id].st.user_doc.id].items)
              /\ SubSeq(docs'[orch[id].st.user_doc.id].items, 1, orch[id].st.read_count)
                     = docs[orch[id].st.user_doc.id].items
              /\ AppendedAll(orch[id].st, docs'[orch[id].st.user_doc.id])]_vars

\* a document that held records has been written with more of them, after
\* an item of the batch was rejected
C24_Witness ==
    \E id \in InstanceIds :
        /\ Wrote(id)
        /\ orch[id].st.read_count > 1
        /\ orch[id].st.stored_count > 1
        /\ orch[id].st.errors # <<>>
        /\ Len(docs[orch[id].user_id].items) =
               orch[id].st.read_count + orch[id].st.stored_count

\* C25: in every document an execution of store_items_activity upserts,
\* itemCount is the length of the document's items
C25_ItemCountIsLength ==
    [][\A id \in InstanceIds :
          Upserts(id) =>
              docs'[orch[id].st.user_doc.id].itemCount =
                  Len(docs'[orch[id].st.user_doc.id].items)]_vars

\* the second batch of a run has written a document that holds more than
\* ten records
C25_Witness ==
    \E id \in InstanceIds :
        /\ Wrote(id)
        /\ orch[id].st.storedata.batch = 2
        /\ orch[id].st.stored_count > 0
        /\ docs[orch[id].user_id].itemCount > BatchSize
        /\ docs[orch[id].user_id].itemCount = Len(docs[orch[id].user_id].items)

\* how many entries of errors are about the item at position i (from 1)
EntriesFor(errors, i) ==
    Cardinality({e \in 1..Len(errors) : errors[e].index = i - 1})

\* C26: when the loop of store_items_activity is over, every item of the
\* input, the empty ones included, was stored or has exactly one entry in
\* errors, never both, so that stored_count + the number of errors is
\* the number of items; and the result reports these numbers
C26_EveryItemAccountedFor ==
    \A id \in InstanceIds :
        Looped(id) =>
            /\ \A i \in 1..Len(orch[id].st.storedata.items) :
                   IF Accepted(orch[id].st.storedata.items[i], orch[id].st.storedata.batch)
                   THEN EntriesFor(orch[id].st.errors, i) = 0
                   ELSE EntriesFor(orch[id].st.errors, i) = 1
            /\ orch[id].st.stored_count + Len(orch[id].st.errors)
                   = Len(orch[id].st.storedata.items)
            /\ Wrote(id) =>
                   orch[id].st.result.stored_count + Len(orch[id].st.result.errors)
                       = orch[id].st.result.total_items

====
